---- MODULE Spec2Model ----
(***************************************************************************)
(* A model of rebench (src/rebench.go): one invocation runs "go test       *)
(* -bench", parses its output into a record of packages, resolves          *)
(* GOPATH/src from the working directory, and for every package loads      *)
(* .bench_best.json, compares, rotates backups and writes the results,     *)
(* the new best and the comparison report.                                 *)
(*                                                                         *)
(* Strings that the code inspects character by character (directories,     *)
(* package paths) are sequences of one-character strings.  A Go            *)
(* map[string]uint64 is a function from a finite set of names to           *)
(* naturals, wrapped in a record that says whether the map is nil.         *)
(***************************************************************************)
EXTENDS Integers, Sequences, FiniteSets, TLC

\* ------------------------------------------------------------- bounds
\* Largest benchmark timing (ns/op) the modelled tool reports.
MaxTime == 2
\* Longest modelled "go test" output, in lines.
MaxLines == 3
\* Number of invocations of rebench in one behaviour.
MaxRuns == 2

\* ------------------------------------------------- the modelled world
\* First column of a benchmark line of the tool's output.
Names == {"BenchmarkA", "BenchmarkB"}
Times == 0..MaxTime
\* Marks a timing column that strconv.ParseUint rejects (e.g. "0.50 ns/op").
BadTime == -1

EmptyMap == [k \in {} |-> 0]
Maps == UNION {[D -> Times] : D \in SUBSET Names}

\* GOPATH/src is /s; it holds package a (directory /s/a) and its
\* sub-package a/b (directory /s/a/b).
RootDir == <<"/", "s", "/", "a">>
SubDir == <<"/", "s", "/", "a", "/", "b">>
RootPkg == <<"a">>
SubPkg == <<"a", "/", "b">>
Dirs == {RootDir, SubDir}
\* The packages "go test ./..." reports when invoked in directory d.
PkgsUnder(d) == IF d = RootDir THEN {RootPkg, SubPkg} ELSE {SubPkg}

\* -speedTol / -recordTol as given on the command line (percent): the
\* defaults, and a speed tolerance below 100.
TolChoices == {<<150, 70>>, <<50, 70>>}

\* ------------------------------------------------------ Go map values
NilMap == [isNil |-> TRUE, m |-> EmptyMap]
MkMap(m) == [isNil |-> FALSE, m |-> m]
Put(m, k, v) == [x \in (DOMAIN m) \cup {k} |-> IF x = k THEN v ELSE m[x]]

\* ---------------------------------------------------- path resolution
convertPath(pathFromTest) == pathFromTest

reform(a, b) == a \o <<"/">> \o b

\* strings.LastIndex: the 0-based index of the last occurrence, or -1.
LastIndex(s, substr) ==
    LET n == Len(substr)
        hits == {i \in 0..(Len(s) - n) : SubSeq(s, i + 1, i + n) = substr}
    IN  IF hits = {} THEN -1 ELSE CHOOSE i \in hits : \A j \in hits : j <= i

\* The empty sequence is Go's "".
findGosrc(dir, pkgName) ==
    LET path == convertPath(pkgName)
        index == LastIndex(dir, path)
    IN  IF index <= 1 THEN <<>> ELSE SubSeq(dir, 1, index - 1)

\* ------------------------------------------------------------- compare
\* Mutant of tooSlowFactor: every division by zero counts as too slow.
tooSlowFactorDivZero(speed, oldSpeed, speedTolPercent) ==
    IF oldSpeed = 0 THEN TRUE ELSE speed * 100 > speedTolPercent * oldSpeed

\* factor > speedTol, with factor := float64(speed)/float64(oldSpeed) and
\* speedTol := float64(percent)/100.  x/0 is +Inf for x > 0 and 0/0 is NaN,
\* which compares false both ways; cross-multiplying by oldSpeed >= 0
\* gives exactly these outcomes.
tooSlowFactor(speed, oldSpeed, speedTolPercent) ==
    speed * 100 > speedTolPercent * oldSpeed

\* factor < recordTol, as above.
recordFactor(speed, oldSpeed, recordTolPercent) ==
    speed * 100 < recordTolPercent * oldSpeed

\* Mutant of bestEntry: a regression overwrites the best.
bestEntryOverwrites(speed, oldSpeed, st, rt) ==
    IF tooSlowFactor(speed, oldSpeed, st) \/ recordFactor(speed, oldSpeed, rt)
    THEN speed ELSE oldSpeed

\* Mutant of bestEntry: a new record is not written.
bestEntryNeverRecords(speed, oldSpeed, st, rt) == oldSpeed

\* What oldBenches[benchName] holds after the speed comparison of a
\* benchmark that is in both maps.
bestEntry(speed, oldSpeed, st, rt) ==
    IF tooSlowFactor(speed, oldSpeed, st) THEN oldSpeed
    ELSE IF recordFactor(speed, oldSpeed, rt) THEN speed
    ELSE oldSpeed

\* The branch of the speed comparison a benchmark in both maps takes, named
\* by what the branch logs: "slower than expected", "new record", nothing.
speedStatus(speed, oldSpeed, st, rt) ==
    IF tooSlowFactor(speed, oldSpeed, st) THEN "Regressed"
    ELSE IF recordFactor(speed, oldSpeed, rt) THEN "Improved"
    ELSE "Unchanged"

\* Mutant of missingKeys: an old benchmark that is gone is not noticed.
missingKeysNone(old, benches) == {}

\* The old benchmarks that are no longer present.
missingKeys(old, benches) == {k \in DOMAIN old : k \notin DOMAIN benches}

\* A row of delta: the four tab-separated columns.
Header == <<"Benchmark Name", <<"New Speed", 0>>, <<"Best Speed", 0>>,
            <<"Factor (New/Old)", 0, 0>>>>
Num(n) == <<"%d", n>>
NA == <<"N/A", 0, 0>>

compare(oldBenches, benches, speedTol, recordTol) ==
    IF ~oldBenches.isNil
    THEN LET old == oldBenches.m
             gone == missingKeys(old, benches)
             both == (DOMAIN old) \cup (DOMAIN benches)
         IN  [delta |->
                  {Header}
                  \cup {<<k, <<"MISSING", 0>>, Num(old[k]), NA>> : k \in gone}
                  \cup {<<k, Num(benches[k]), <<"MISSING", 0>>, NA>> :
                           k \in (DOMAIN benches) \ (DOMAIN old)}
                  \cup {<<k, Num(benches[k]), Num(old[k]),
                          <<"%f", benches[k], old[k]>>>> :
                           k \in (DOMAIN benches) \cap (DOMAIN old)},
              status |->
                  [k \in both |->
                      IF k \in gone THEN "Missing"
                      ELSE IF k \notin DOMAIN benches THEN "Unnoticed"
                      ELSE IF k \notin DOMAIN old THEN "New"
                      ELSE speedStatus(benches[k], old[k], speedTol, recordTol)],
              bestBenches |->
                  [k \in both |->
                      IF k \notin DOMAIN benches THEN old[k]
                      ELSE IF k \notin DOMAIN old THEN benches[k]
                      ELSE bestEntry(benches[k], old[k], speedTol, recordTol)],
              missing |-> gone # {},
              tooSlow |-> \E k \in (DOMAIN benches) \cap (DOMAIN old) :
                              tooSlowFactor(benches[k], old[k], speedTol)]
    ELSE [delta |->
              {Header}
              \cup {<<k, Num(benches[k]), <<"NO FILE", 0>>, NA>> :
                       k \in DOMAIN benches},
          status |-> [k \in DOMAIN benches |-> "New"],
          bestBenches |-> benches,
          missing |-> FALSE,
          tooSlow |-> FALSE]

\* Mutant of argAfterCompare: compare works on a copy of the old benchmarks.
argCopied(oldBenches, bestBenches) == oldBenches

\* The map the caller passed as oldBenches, after the call: compare writes
\* new benchmarks and new records into it and returns it; a nil argument is
\* replaced by a fresh map inside compare only.
argAfterCompare(oldBenches, bestBenches) ==
    IF oldBenches.isNil THEN oldBenches ELSE MkMap(bestBenches)

\* ------------------------------------------------------------ the files
ResultsFile == ".bench_results.json"
BestFile == ".bench_best.json"
ReportFile == "bench_comparison.txt"
ResultsOld == ".bench_results.json.old"
BestOld == ".bench_best.json.old"
ReportOld == ".bench_comparison.txt.old"
LiveFiles == {ResultsFile, BestFile, ReportFile}
FileNames == LiveFiles \cup {ResultsOld, BestOld, ReportOld}
BackupOf(f) ==
    IF f = ResultsFile THEN ResultsOld
    ELSE IF f = BestFile THEN BestOld ELSE ReportOld

\* What a file holds: nothing (it does not exist), a JSON object (its
\* members as name/value pairs), text (its rows), or bytes that are no JSON
\* object of unsigned integers.
Absent == [kind |-> "absent", json |-> {}, text |-> {}]
Corrupt == [kind |-> "corrupt", json |-> {}, text |-> {}]
JsonFile(members) == [kind |-> "json", json |-> members, text |-> {}]
TextFile(rows) == [kind |-> "text", json |-> {}, text |-> rows]
NoFiles == [f \in FileNames |-> Absent]
Exists(files, f) == files[f].kind # "absent"

\* json.Marshal of a map[string]uint64: one member per key.
Marshal(m) == {<<k, m[k]>> : k \in DOMAIN m}

\* json.Unmarshal into a map[string]uint64.
Unmarshal(members) ==
    [k \in {p[1] : p \in members} |-> (CHOOSE p \in members : p[1] = k)[2]]

unmarshallAndStoreBench(file) ==
    IF file.kind = "absent" THEN NilMap
    ELSE IF file.kind # "json" THEN NilMap
    ELSE MkMap(Unmarshal(file.json))

\* The rows with exactly four columns, aligned (the padding is not modelled).
tabAlign(delta) == {row \in delta : Len(row) = 4}

\* Mutant of rotate: the stale backup is removed but the file is not renamed.
rotateDrops(files, f) ==
    IF Exists(files, f)
    THEN [files EXCEPT ![BackupOf(f)] = Absent, ![f] = Absent]
    ELSE files

\* os.Stat, os.Remove of the backup, os.Rename of the file to the backup.
rotate(files, f) ==
    IF Exists(files, f)
    THEN [files EXCEPT ![BackupOf(f)] = files[f], ![f] = Absent]
    ELSE files

\* Mutant of storeIfAny: an empty map is written as well.
storeAlways(files, f, m) == [files EXCEPT ![f] = JsonFile(Marshal(m))]

\* json.Marshal and ioutil.WriteFile, when the map is not empty.
storeIfAny(files, f, m) ==
    IF Cardinality(DOMAIN m) > 0
    THEN [files EXCEPT ![f] = JsonFile(Marshal(m))]
    ELSE files

\* The files of the current directory after backupMarshallAndStore.
backupMarshallAndStore(files, delta, benches, newBest) ==
    LET f1 == rotate(files, ResultsFile)
        f2 == rotate(f1, BestFile)
        f3 == rotate(f2, ReportFile)
        f4 == storeIfAny(f3, ResultsFile, benches)
        f5 == storeIfAny(f4, BestFile, newBest)
    IN  IF Cardinality(DOMAIN benches) > 0 \/ Cardinality(DOMAIN newBest) > 0
        THEN [f5 EXCEPT ![ReportFile] = TextFile(delta)]
        ELSE f5

\* ------------------------------------------------------------ the parser
\* A line of the tool's output after strings.Split(line, "\t") and
\* TrimSpace: n columns, of which c0 and c1 are the first two and c2 is what
\* the third holds in front of " ns/op" (BadTime: no unsigned integer).
BenchLines == {[n |-> 3, c0 |-> b, c1 |-> <<>>, c2 |-> t] :
                  b \in Names, t \in Times \cup {BadTime}}
OkLines(d) == {[n |-> 3, c0 |-> "ok", c1 |-> p, c2 |-> 0] : p \in PkgsUnder(d)}
SkipLines == {[n |-> 3, c0 |-> "?", c1 |-> SubPkg, c2 |-> 0],
              [n |-> 1, c0 |-> "PASS", c1 |-> <<>>, c2 |-> 0]}
LineSet(d) == BenchLines \cup OkLines(d) \cup SkipLines
Outputs(d) == UNION {[1..n -> LineSet(d)] : n \in 0..MaxLines}

\* strings.HasPrefix(word, "Benchmark")
HasBenchmarkPrefix(word) == word \in Names

EmptyRecord == [p \in {} |-> EmptyMap]
ParseError == [err |-> TRUE, record |-> EmptyRecord]

\* Mutant of parseFailure: the packages parsed so far are returned.
parseFailureKeeps(rec) == [err |-> FALSE, record |-> rec]

\* What runAndStoreBenches returns when strconv.ParseUint fails.
parseFailure(rec) == ParseError

\* The loop of runAndStoreBenches over the lines still to read.
RECURSIVE parseLines(_, _, _)
parseLines(lines, rec, curr) ==
    IF lines = <<>> THEN [err |-> FALSE, record |-> rec]
    ELSE LET result == Head(lines) IN
         IF result.n < 3 \/ result.c0 = "?"
         THEN parseLines(Tail(lines), rec, curr)
         ELSE IF HasBenchmarkPrefix(result.c0)
         THEN IF result.c2 = BadTime
              THEN parseFailure(rec)
              ELSE parseLines(Tail(lines), rec, Put(curr, result.c0, result.c2))
         ELSE IF result.c0 = "ok"
         THEN parseLines(Tail(lines), Put(rec, result.c1, curr), EmptyMap)
         ELSE parseLines(Tail(lines), rec, curr)

\* The tool ran; its output is parsed.
runAndStoreBenches(out) == parseLines(out, EmptyRecord, EmptyMap)

\* Whether the output has a benchmark line whose time is no unsigned
\* integer, and whether an "ok" line comes before the first such line.
BadLineOf(out) ==
    LET bad == {i \in 1..Len(out) :
                   out[i].n >= 3 /\ out[i].c0 \in Names /\ out[i].c2 = BadTime}
    IN  IF bad = {} THEN "none"
        ELSE IF \E j \in 1..Len(out) :
                    /\ \A i \in bad : j < i
                    /\ out[j].n >= 3
                    /\ out[j].c0 = "ok"
             THEN "after ok"
             ELSE "first"

\* Every output of the tool in directory d, as what runAndStoreBenches makes
\* of it, with what BadLineOf says of it.
Parsed(d) ==
    {[r |-> runAndStoreBenches(out), bad |-> BadLineOf(out)] : out \in Outputs(d)}
ParsedInRoot == Parsed(RootDir)
ParsedInSub == Parsed(SubDir)
Runs(d) == IF d = RootDir THEN ParsedInRoot ELSE ParsedInSub

\* --------------------------------------------------------------- state
VARIABLES
    fs,                \* directory -> file name -> what the file holds
    pc,                \* "idle", "loop" (in the loop over record), "exited"
    how,               \* how the last invocation ended
    pwd,               \* os.Getwd() of the invocation
    speedTolPercent,   \* -speedTol
    recordTolPercent,  \* -recordTol
    record,            \* what runAndStoreBenches returned
    gosrc,             \* GOPATH/src as findGosrc found it
    todo,              \* the packages the loop over record has yet to visit
    missing,           \* rebench's missing
    tooSlow,           \* rebench's tooSlow
    exitCode,          \* what rebench returned (os.Exit)
    runs,              \* invocations so far
    fsStart,           \* history: fs when the invocation began
    badLine,           \* history: BadLineOf the output of this invocation
    seen,              \* history: the statuses compare gave in this invocation
    last,              \* history: the last package processed
    call               \* two calls of compare on the same two maps

vars == <<fs, pc, how, pwd, speedTolPercent, recordTolPercent, record, gosrc,
          todo, missing, tooSlow, exitCode, runs, fsStart, badLine, seen,
          last, call>>

NoLast == [valid |-> FALSE, dir |-> <<>>, old |-> NilMap, benches |-> EmptyMap,
           res |-> compare(NilMap, EmptyMap, 0, 0),
           before |-> NoFiles, after |-> NoFiles]

NoCall == [at |-> "none", old |-> NilMap, benches |-> EmptyMap,
           speedTol |-> 0, recordTol |-> 0,
           oldObj |-> NilMap, benchesObj |-> EmptyMap,
           first |-> compare(NilMap, EmptyMap, 0, 0),
           second |-> compare(NilMap, EmptyMap, 0, 0)]

\* Before the first invocation a directory holds no file of rebench, or a
\* .bench_best.json that somebody put there and that does not parse.
Init ==
    /\ fs \in [Dirs -> {NoFiles, [NoFiles EXCEPT ![BestFile] = Corrupt]}]
    /\ pc = "idle"
    /\ how = "none"
    /\ pwd = RootDir
    /\ speedTolPercent = 150
    /\ recordTolPercent = 70
    /\ record = EmptyRecord
    /\ gosrc = <<>>
    /\ todo = {}
    /\ missing = FALSE
    /\ tooSlow = FALSE
    /\ exitCode = 0
    /\ runs = 0
    /\ fsStart = fs
    /\ badLine = "none"
    /\ seen = {}
    /\ last = NoLast
    /\ call = NoCall

\* No invocation is running, and the behaviour has invocations left.
CanInvoke == pc \in {"idle", "exited"} /\ runs < MaxRuns

\* main calls rebench: a new process, in directory d, with the flags tol.
Invoke(d, tol) ==
    /\ runs' = runs + 1
    /\ pwd' = d
    /\ speedTolPercent' = tol[1]
    /\ recordTolPercent' = tol[2]
    /\ missing' = FALSE
    /\ tooSlow' = FALSE
    /\ fsStart' = fs
    /\ seen' = {}
    /\ last' = NoLast
    /\ UNCHANGED <<fs, call>>

Exit(code, reason) ==
    /\ pc' = "exited"
    /\ how' = reason
    /\ exitCode' = code
    /\ todo' = {}

\* "go test" returns with a non-zero status.
ToolFails ==
    /\ CanInvoke
    /\ \E d \in Dirs, tol \in TolChoices :
        /\ Invoke(d, tol)
        /\ Exit(-1, "tool")
        /\ record' = EmptyRecord
        /\ gosrc' = <<>>
        /\ badLine' = "none"

\* runAndStoreBenches returns an error.
ParseFails ==
    /\ CanInvoke
    /\ \E d \in Dirs, tol \in TolChoices :
        \E run \in Runs(d) :
            LET r == run.r IN
            /\ r.err
            /\ Invoke(d, tol)
            /\ Exit(-1, "parse")
            /\ record' = r.record
            /\ gosrc' = <<>>
            /\ badLine' = run.bad

\* len(record) == 0
NothingToDo ==
    /\ CanInvoke
    /\ \E d \in Dirs, tol \in TolChoices :
        \E run \in Runs(d) :
            LET r == run.r IN
            /\ ~r.err
            /\ DOMAIN r.record = {}
            /\ Invoke(d, tol)
            /\ Exit(0, "nothing")
            /\ record' = r.record
            /\ gosrc' = <<>>
            /\ badLine' = run.bad

\* The first key the range over record yields does not give gosrc:
\* log.Fatalln, which exits with status 1.
CannotResolve ==
    /\ CanInvoke
    /\ \E d \in Dirs, tol \in TolChoices :
        \E run \in Runs(d) :
            LET r == run.r IN
            /\ ~r.err
            /\ \E key \in DOMAIN r.record :
                   /\ findGosrc(d, key) = <<>>
                   /\ Invoke(d, tol)
                   /\ Exit(1, "fatal")
                   /\ record' = r.record
                   /\ gosrc' = <<>>
                   /\ badLine' = run.bad

\* The first key the range over record yields gives gosrc.
Resolve ==
    /\ CanInvoke
    /\ \E d \in Dirs, tol \in TolChoices :
        \E run \in Runs(d) :
            LET r == run.r IN
            /\ ~r.err
            /\ \E key \in DOMAIN r.record :
                   /\ findGosrc(d, key) # <<>>
                   /\ Invoke(d, tol)
                   /\ pc' = "loop"
                   /\ record' = r.record
                   /\ gosrc' = findGosrc(d, key)
                   /\ todo' = DOMAIN r.record
                   /\ badLine' = run.bad
                   /\ UNCHANGED <<how, exitCode>>

\* One turn of the loop over record in which os.Chdir fails (no such
\* directory, or one that cannot be entered): the package is ignored.
SkipPackage ==
    /\ pc = "loop"
    /\ \E pkgPath \in todo : todo' = todo \ {pkgPath}
    /\ UNCHANGED <<fs, pc, how, pwd, speedTolPercent, recordTolPercent, record,
                   gosrc, missing, tooSlow, exitCode, runs, fsStart, badLine,
                   seen, last, call>>

\* One turn of the loop over record: chdir, load the best, compare, store.
ProcessPackage ==
    /\ pc = "loop"
    /\ \E pkgPath \in todo :
           LET dir == reform(gosrc, pkgPath)
               benches == record[pkgPath]
           IN  /\ dir \in Dirs
               /\ LET oldBenches == unmarshallAndStoreBench(fs[dir][BestFile])
                      res == compare(oldBenches, benches,
                                     speedTolPercent, recordTolPercent)
                      files == backupMarshallAndStore(
                                   fs[dir], tabAlign(res.delta), benches,
                                   res.bestBenches)
                  IN  /\ missing' = (missing \/ res.missing)
                      /\ tooSlow' = (tooSlow \/ res.tooSlow)
                      /\ fs' = [fs EXCEPT ![dir] = files]
                      /\ seen' = seen \cup {res.status[k] : k \in DOMAIN res.status}
                      /\ last' = [valid |-> TRUE, dir |-> dir, old |-> oldBenches,
                                  benches |-> benches, res |-> res,
                                  before |-> fs[dir], after |-> files]
               /\ todo' = todo \ {pkgPath}
    /\ UNCHANGED <<pc, how, pwd, speedTolPercent, recordTolPercent, record,
                   gosrc, exitCode, runs, fsStart, badLine, call>>

\* Mutant of exitCodeOf: missing benchmarks do not count.
exitCodeIgnoresMissing(m, ts) == IF ts THEN 1 ELSE 0

\* rebench's exitCode after the loop.
exitCodeOf(m, ts) == IF m \/ ts THEN 1 ELSE 0

\* The loop over record is over; rebench returns.
Finish ==
    /\ pc = "loop"
    /\ todo = {}
    /\ Exit(exitCodeOf(missing, tooSlow), "compared")
    /\ UNCHANGED <<fs, pwd, speedTolPercent, recordTolPercent, record, gosrc,
                   missing, tooSlow, runs, fsStart, badLine, seen, last, call>>

Next ==
    \/ ToolFails
    \/ ParseFails
    \/ NothingToDo
    \/ CannotResolve
    \/ Resolve
    \/ SkipPackage
    \/ ProcessPackage
    \/ Finish

Spec == Init /\ [][Next]_vars

\* ------------------------------------------- compare, called twice
\* The caller holds two maps (oldObj, benchesObj) and calls compare on them
\* twice; old and benches keep what the maps held before the first call.
Inputs ==
    {[at |-> "start", old |-> o, benches |-> b,
      speedTol |-> tol[1], recordTol |-> tol[2],
      oldObj |-> o, benchesObj |-> b,
      first |-> NoCall.first, second |-> NoCall.second] :
        o \in {NilMap} \cup {MkMap(m) : m \in Maps}, b \in Maps,
        tol \in TolChoices}

InitCompare ==
    /\ call \in Inputs
    /\ fs = [d \in Dirs |-> NoFiles]
    /\ pc = "idle"
    /\ how = "none"
    /\ pwd = RootDir
    /\ speedTolPercent = 150
    /\ recordTolPercent = 70
    /\ record = EmptyRecord
    /\ gosrc = <<>>
    /\ todo = {}
    /\ missing = FALSE
    /\ tooSlow = FALSE
    /\ exitCode = 0
    /\ runs = 0
    /\ fsStart = fs
    /\ badLine = "none"
    /\ seen = {}
    /\ last = NoLast

FirstCall ==
    /\ call.at = "start"
    /\ LET res == compare(call.oldObj, call.benchesObj,
                          call.speedTol, call.recordTol)
       IN  call' = [call EXCEPT
                       !.at = "once",
                       !.first = res,
                       !.oldObj = argAfterCompare(call.oldObj, res.bestBenches)]
    /\ UNCHANGED <<fs, pc, how, pwd, speedTolPercent, recordTolPercent, record,
                   gosrc, todo, missing, tooSlow, exitCode, runs, fsStart,
                   badLine, seen, last>>

SecondCall ==
    /\ call.at = "once"
    /\ LET res == compare(call.oldObj, call.benchesObj,
                          call.speedTol, call.recordTol)
       IN  call' = [call EXCEPT
                       !.at = "twice",
                       !.second = res,
                       !.oldObj = argAfterCompare(call.oldObj, res.bestBenches)]
    /\ UNCHANGED <<fs, pc, how, pwd, speedTolPercent, recordTolPercent, record,
                   gosrc, todo, missing, tooSlow, exitCode, runs, fsStart,
                   badLine, seen, last>>

NextCompare == FirstCall \/ SecondCall

SpecCompare == InitCompare /\ [][NextCompare]_vars

\* -------------------------------------------------------------- claims
\* The ratio current/baseline against a tolerance given in percent, as the
\* claims use it (IEEE division: x/0 is above every tolerance for x > 0, and
\* 0/0 is neither above nor below any).
RatioAbove(current, baseline, percent) == current * 100 > percent * baseline
RatioBelow(current, baseline, percent) == current * 100 < percent * baseline

Range(f) == {f[k] : k \in DOMAIN f}
Keys(file) == {p[1] : p \in file.json}
InBoth(a, b) == (DOMAIN a) \cap (DOMAIN b)

\* The backups after a save hold what the live files held before it, and a
\* live file that did not exist leaves its backup as it was.
Rotated(before, after) ==
    \A f \in LiveFiles :
        after[BackupOf(f)] =
            IF Exists(before, f) THEN before[f] ELSE before[BackupOf(f)]

C3_ImprovedAndUnchanged ==
    (call.at # "start" /\ ~call.old.isNil) =>
        LET old == call.old.m
            cur == call.benches
            res == call.first
        IN  /\ \A k \in InBoth(old, cur) :
                   ~RatioAbove(cur[k], old[k], call.speedTol) =>
                       IF RatioBelow(cur[k], old[k], call.recordTol)
                       THEN /\ res.status[k] = "Improved"
                            /\ res.bestBenches[k] = cur[k]
                       ELSE /\ res.status[k] = "Unchanged"
                            /\ res.bestBenches[k] = old[k]
            /\ (\A k \in InBoth(old, cur) :
                    ~RatioAbove(cur[k], old[k], call.speedTol)) => ~res.tooSlow

\* C3 witness: one benchmark sets a record and another stays in the dead
\* zone, with different timings.
C3_Witness ==
    /\ call.at = "once" /\ ~call.old.isNil
    /\ \E k1, k2 \in InBoth(call.old.m, call.benches) :
           /\ call.first.status[k1] = "Improved"
           /\ call.old.m[k1] # call.benches[k1]
           /\ call.first.status[k2] = "Unchanged"
           /\ call.old.m[k2] # 0

C5_ExitCode ==
    LET flagged == ("Missing" \in seen) \/ ("Regressed" \in seen) IN
    /\ (pc = "exited" /\ how = "compared") =>
           exitCode = IF flagged THEN 1 ELSE 0
    /\ pc = "loop" => ((missing \/ tooSlow) <=> flagged)

\* C5 witness: the run returns 1 although the package processed last had
\* only new benchmarks.
C5_Witness ==
    /\ pc = "exited" /\ how = "compared" /\ exitCode = 1
    /\ last.valid /\ ~last.res.missing /\ ~last.res.tooSlow
    /\ Range(last.res.status) = {"New"}

\* C6 as stated: compared with itself, a baseline has every key Unchanged,
\* is its own new baseline, and raises no flag.
C6_SelfCompare ==
    (call.at # "start" /\ ~call.old.isNil /\ call.benches = call.old.m) =>
        /\ \A k \in DOMAIN call.old.m : call.first.status[k] = "Unchanged"
        /\ call.first.bestBenches = call.old.m
        /\ ~call.first.missing
        /\ ~call.first.tooSlow

\* C6 amended: the same, for tolerances with recordTol <= 1 <= speedTol.
C6_SelfCompareInDeadZone ==
    (call.recordTol <= 100 /\ 100 <= call.speedTol) => C6_SelfCompare

\* C6 witness: a baseline with a zero and a non-zero timing is compared
\* with itself under the default tolerances.
C6_Witness ==
    /\ call.at = "once" /\ ~call.old.isNil /\ call.benches = call.old.m
    /\ call.speedTol = 150 /\ call.recordTol = 70
    /\ \E k1, k2 \in DOMAIN call.old.m : call.old.m[k1] = 0 /\ call.old.m[k2] > 0

\* C7: when the output has a benchmark line whose time is no unsigned
\* integer, the parser returns no record, the run ends with a code that is
\* neither 0 nor 1, and every file is as it was when the run began.
C7_ParseErrorAborts ==
    badLine # "none" =>
        /\ pc = "exited"
        /\ how = "parse"
        /\ DOMAIN record = {}
        /\ exitCode \notin {0, 1}
        /\ fs = fsStart

\* C7 witness: such a run, whose output has an "ok" line before the bad
\* line, in a directory that has files of an earlier run.
C7_Witness ==
    /\ badLine = "after ok" /\ pc = "exited" /\ runs = 2
    /\ \E d \in Dirs : Exists(fs[d], ResultsFile) /\ Exists(fs[d], BestOld)

\* C8: after every save, each live file that existed when the save began is
\* in its backup with the content it had, and a live file that did not
\* exist leaves its backup as it was.
C8_BackupsHoldPrevious ==
    last.valid => Rotated(last.before, last.after)

\* C8 witness: a save that replaces an older, different backup, and leaves
\* the backup of a file that did not exist.
C8_Witness ==
    /\ last.valid
    /\ \E f \in LiveFiles :
           /\ Exists(last.before, f)
           /\ Exists(last.before, BackupOf(f))
           /\ last.before[BackupOf(f)] # last.before[f]

C10_ResolutionIgnoresOrder ==
    /\ (pc = "exited" /\ how = "fatal") =>
           \A k \in DOMAIN record : findGosrc(pwd, k) = <<>>
    /\ pc = "loop" =>
           \A k \in DOMAIN record : findGosrc(pwd, k) = gosrc

====
